---- MODULE Spec2Model ----
(***************************************************************************)
(* google-sheet-db: the collection synchronization engine (GoogleSheetDb)  *)
(* over a remote spreadsheet (GoogleSheet).  The engine's state is the     *)
(* registry `collections` of collection objects; the remote state is the   *)
(* list of sheets and each sheet's cell grid.  Every engine operation is   *)
(* an async method: it is modelled as a task that runs synchronously from  *)
(* one await to the next.                                                   *)
(***************************************************************************)
EXTENDS Integers, Sequences, FiniteSets, TLC

\* ------------------------------------------------------------------ bounds
MaxRows == 3        \* data rows a sheet / a row cache may hold
MaxOps == 3         \* operations a caller issues in one run
MaxColl == 3        \* collection objects alive at once
MaxIndex == 730     \* largest column offset getColumnByIndex is applied to

\* ---------------------------------------------------------------- universe
Names == {"s1", "s2"}              \* sheet titles = collection names
UUIDs == {"u1"}                    \* values uuid() may return
Undef == "undefined"               \* the JavaScript value undefined / an array hole
NoIndex == -1                      \* a record whose _index is not a number
Tasks == {"t1", "t2"}              \* callers that may have a call in flight
CIds == 1..MaxColl                 \* identities of collection objects

Max2(a, b) == IF a >= b THEN a ELSE b

\* ------------------------------------------------------------- JS records
\* A record is {_index, _id, ...fields}; kv keeps the own fields in insertion
\* order (Object.keys order) as <<key, value>> pairs.
Rec(idx, id, kv) == [idx |-> idx, id |-> id, kv |-> kv]
HoleRec == Rec(NoIndex, "hole", <<>>)      \* an empty slot of a sparse array
IsHole(r) == r.id = "hole"

HasKey(kv, k) == \E i \in 1..Len(kv) : kv[i][1] = k
Get(kv, k) == IF HasKey(kv, k) THEN kv[CHOOSE i \in 1..Len(kv) : kv[i][1] = k][2] ELSE Undef
Put(kv, k, v) ==
  IF HasKey(kv, k)
  THEN [i \in 1..Len(kv) |-> IF kv[i][1] = k THEN <<k, v>> ELSE kv[i]]
  ELSE Append(kv, <<k, v>>)

\* ------------------------------------------------------ getColumnByIndex
AZ == <<"A","B","C","D","E","F","G","H","I","J","K","L","M",
        "N","O","P","Q","R","S","T","U","V","W","X","Y","Z">>
ColumnError == "Index out range"
Pending == "pending"               \* a call that has not returned yet
\* AZ[b] of an index past the array is undefined, which string
\* concatenation renders as "undefined".
AZat(b) == IF b >= 0 /\ b < Len(AZ) THEN AZ[b + 1] ELSE Undef
getColumnByIndex(index) ==
  IF index <= 0 THEN ColumnError
  ELSE IF index <= 26 THEN AZ[index]
  ELSE LET a == (index - 1) % 26
           b == ((index - 1) \div 26) - 1
       IN AZat(b) \o AZat(a)

\* ----------------------------------------------------------- remote grid
\* A sheet's cells are the rows of its used range: row 1 first, every row
\* without its trailing empty cells, and no trailing empty rows (what
\* spreadsheets.values.get returns for a range that covers the sheet).
RECURSIVE Trim(_)
Trim(s) == IF s = <<>> THEN s
           ELSE IF s[Len(s)] = "" THEN Trim(SubSeq(s, 1, Len(s) - 1)) ELSE s
RECURSIVE TrimRows(_)
TrimRows(g) == IF g = <<>> THEN g
               ELSE IF g[Len(g)] = <<>> THEN TrimRows(SubSeq(g, 1, Len(g) - 1)) ELSE g
GridRow(g, r) == IF r >= 1 /\ r <= Len(g) THEN g[r] ELSE <<>>
CellAt(row, i) == IF i >= 1 /\ i <= Len(row) THEN row[i] ELSE ""

\* values.update with RAW input: a null (a hole or undefined of the posted
\* array) leaves the cell as it is, any other value overwrites it.
WriteRow(old, new) ==
  Trim([i \in 1..Max2(Len(old), Len(new)) |->
          IF i <= Len(new) /\ new[i] # Undef THEN new[i] ELSE CellAt(old, i)])
WriteGrid(g, startRow, values) ==
  TrimRows([r \in 1..Max2(Len(g), startRow + Len(values) - 1) |->
              IF r >= startRow /\ r < startRow + Len(values)
              THEN WriteRow(GridRow(g, r), values[r - startRow + 1])
              ELSE GridRow(g, r)])
\* deleteDimension ROWS [startIndex, startIndex + 1): zero-based grid row.
RemoveGridRow(g, startIndex) ==
  IF startIndex + 1 > Len(g) THEN g
  ELSE TrimRows([r \in 1..(Len(g) - 1) |-> IF r <= startIndex THEN g[r] ELSE g[r + 1]])

\* ISheetProperty: title (also standing for sheetId) and whether
\* gridProperties.rowCount && gridProperties.columnCount is truthy.
Sheet(title, grid) == [title |-> title, grid |-> grid]
NoSheet == Sheet("", FALSE)                \* collection.sheet = null

\* ------------------------------------------------------------ collections
EmptyMap == [k \in {} |-> 0]
Coll(name, sheet, columns, column_map, data, initialized) ==
  [live |-> TRUE, name |-> name, sheet |-> sheet, columns |-> columns,
   column_map |-> column_map, data |-> data, initialized |-> initialized]
NullColl == [live |-> FALSE, name |-> "", sheet |-> NoSheet, columns |-> <<>>,
             column_map |-> EmptyMap, data |-> <<>>, initialized |-> FALSE]

VARIABLES
  collections,   \* GoogleSheetDb.collections: the registry, a list of collection objects
  coll,          \* the collection objects, by identity
  sheets,        \* remote: the spreadsheet's sheets, in order
  cells,         \* remote: each sheet's used range
  task,          \* each caller's call in flight: position and locals
  nops,          \* operations issued so far
  column         \* an application of getColumnByIndex: its argument and its result

vars == <<collections, coll, sheets, cells, task, nops, column>>

Range(s) == {s[i] : i \in 1..Len(s)}

\* --------------------------------------------- getCollectionDataBySheet
\* `_column_${i}`, the name given to a column whose header cell is blank.
SynthName == <<"_column_0", "_column_1", "_column_2", "_column_3", "_column_4", "_column_5">>
\* x.startsWith('_column_')
ColumnPrefix == "_column_"
StartsWithColumn(x) ==
  Len(x) >= Len(ColumnPrefix) /\ SubSeq(x, 1, Len(ColumnPrefix)) = ColumnPrefix

HeaderColumns(headerRow) ==
  [i \in 1..Len(headerRow) |-> IF headerRow[i] = "" THEN SynthName[i] ELSE headerRow[i]]
\* columnMap[name] = { index: i }: a later cell of the same name overwrites.
HeaderMap(columns) ==
  [n \in Range(columns) |->
     (CHOOSE i \in 1..Len(columns) :
        columns[i] = n /\ \A j \in 1..Len(columns) : columns[j] = n => j <= i) - 1]
\* x[index] of a returned row: undefined past the row's last value.
JsAt(x, index) == IF index >= 0 /\ index < Len(x) THEN x[index + 1] ELSE Undef
RECURSIVE ItemKv(_, _, _, _, _)
ItemKv(columns, columnMap, x, i, kv) ==
  IF i > Len(columns) THEN kv
  ELSE ItemKv(columns, columnMap, x, i + 1,
              Put(kv, columns[i], JsAt(x, columnMap[columns[i]])))
RowItems(rows, ids) ==
  LET columns == HeaderColumns(rows[1])
      columnMap == HeaderMap(columns)
  IN [j \in 1..(Len(rows) - 1) |->
        Rec(j - 1, ids[j], ItemKv(columns, columnMap, rows[j + 1], 1, <<>>))]
\* The collection built from the rows read (rows # undefined), or the empty
\* one of a sheet without rows or columns.
getCollectionDataBySheet(sheet, rows, ids) ==
  IF sheet.grid
  THEN Coll(sheet.title, sheet, HeaderColumns(rows[1]),
            HeaderMap(HeaderColumns(rows[1])), RowItems(rows, ids), TRUE)
  ELSE Coll(sheet.title, sheet, <<>>, EmptyMap, <<>>, TRUE)

\* ------------------------------------------------------------------ tasks
NullRec == Rec(NoIndex, "null", <<>>)      \* record = null
IsNull(r) == r.id = "null"

\* A cell of an A1 range: column letters and row number.
Cell(col, row) == [col |-> col, row |-> row]
NoCell == Cell("", 0)
IdleTask ==
  [pc |-> "idle", op |-> "none", name |-> "", cid |-> 0,
   recs |-> <<>>, pred |-> {}, sync |-> FALSE, values |-> <<>>,
   startRow |-> 0, deleteIndex |-> <<>>, i |-> 0, rows |-> <<>>,
   gotSheets |-> <<>>, sheet |-> NoSheet, header |-> <<>>, alias |-> FALSE,
   rangeEnd |-> NoCell,
   status |-> "none", ret |-> 0, result |-> <<>>, error |-> "",
   \* history kept for stating properties
   fresh |-> FALSE, wasInit |-> FALSE, before |-> <<>>, regBefore |-> <<>>,
   out |-> <<>>, prev |-> "none", prevRecs |-> <<>>, c0 |-> NullColl,
   removed |-> <<>>, writes |-> <<>>, failedAt |-> "none", retry |-> FALSE,
   overlapped |-> FALSE]

\* The call returns (status "ok") or throws (status "error").
Return(tk, ret, result) ==
  [tk EXCEPT !.pc = "done", !.status = "ok", !.ret = ret, !.result = result,
             !.sync = FALSE, !.values = <<>>, !.startRow = 0, !.deleteIndex = <<>>,
             !.i = 0, !.rows = <<>>, !.gotSheets = <<>>, !.sheet = NoSheet,
             !.header = <<>>, !.rangeEnd = NoCell]
Throw(tk, error) ==
  [tk EXCEPT !.pc = "done", !.status = "error", !.error = error,
             !.sync = FALSE, !.values = <<>>, !.startRow = 0, !.deleteIndex = <<>>,
             !.i = 0, !.rows = <<>>, !.gotSheets = <<>>, !.sheet = NoSheet,
             !.header = <<>>, !.rangeEnd = NoCell]

\* this.collections.find(x => x.name === collectionName): the object, 0 if none.
FindCollection(name) ==
  IF \E i \in 1..Len(collections) : coll[collections[i]].name = name
  THEN collections[CHOOSE i \in 1..Len(collections) :
                     /\ coll[collections[i]].name = name
                     /\ \A j \in 1..(i - 1) : coll[collections[j]].name # name]
  ELSE 0
RegistryNames(reg, cl) == [i \in 1..Len(reg) |-> cl[reg[i]].name]

\* Collection objects no longer referenced by the registry or a call are gone.
Collect(cl, reg, tk) ==
  [c \in CIds |->
     IF c \in Range(reg) \/ \E t \in Tasks : tk[t].pc # "idle" /\ tk[t].cid = c
     THEN cl[c] ELSE NullColl]

\* --------------------------------------------------------------- initial
InitRemotes ==
  { [sheets |-> <<>>,
     cells  |-> [n \in Names |-> <<>>]],
    [sheets |-> <<Sheet("s1", TRUE), Sheet("s2", TRUE)>>,
     cells  |-> [n \in Names |->
                   IF n = "s1"
                   THEN << <<"name", "", "x">>, <<"a">>, <<"b", "", "a">>, <<"a", "", "b">> >>
                   ELSE <<>>]],
    [sheets |-> <<Sheet("s1", FALSE), Sheet("s2", TRUE)>>,
     cells  |-> [n \in Names |->
                   IF n = "s2" THEN << <<"x">>, <<"b">> >> ELSE <<>>]],
    \* a header cell whose text starts like the names given to blank cells
    [sheets |-> <<Sheet("s1", TRUE)>>,
     cells  |-> [n \in Names |->
                   IF n = "s1" THEN << <<"_column_x", "">>, <<"a", "b">> >> ELSE <<>>]] }

Init ==
  /\ collections = <<>>
  /\ coll = [c \in CIds |-> NullColl]
  /\ \E r \in InitRemotes : sheets = r.sheets /\ cells = r.cells
  /\ task = [t \in Tasks |-> IdleTask]
  /\ nops = 0
  /\ column = [index |-> 0, letters |-> Pending]

\* --------------------------------------------------------- sync code blocks
IdSeqs == [1..MaxRows -> UUIDs]            \* the values of successive uuid() calls

\* An allocation that does not look the field up first.
EnsureAlways(c, y) ==
  [c EXCEPT !.column_map = (y :> Len(c.columns)) @@ @,
            !.columns = Append(@, y)]
\* if (!collection.column_map[y]) { column_map[y] = {index: columns.length}; columns.push(y) }
Ensure(c, y) ==
  IF y \in DOMAIN c.column_map THEN c
  ELSE [c EXCEPT !.column_map = @ @@ (y :> Len(c.columns)),
                 !.columns = Append(@, y)]
RECURSIVE AllocKeys(_, _, _)
AllocKeys(c, kv, i) ==
  IF i > Len(kv) THEN c ELSE AllocKeys(Ensure(c, kv[i][1]), kv, i + 1)
RECURSIVE AllocRecords(_, _, _)
AllocRecords(c, recs, i) ==
  IF i > Len(recs) THEN c ELSE AllocRecords(AllocKeys(c, recs[i].kv, 1), recs, i + 1)

\* value[column_map[y].index] = x[y] for every own field y: a sparse array.
ValueOf(c, kv) ==
  LET offs == {c.column_map[kv[i][1]] : i \in 1..Len(kv)}
      w == IF offs = {} THEN 0 ELSE (CHOOSE o \in offs : \A p \in offs : p <= o) + 1
  IN [j \in 1..w |->
        IF \E i \in 1..Len(kv) : c.column_map[kv[i][1]] = j - 1
        THEN kv[CHOOSE i \in 1..Len(kv) : c.column_map[kv[i][1]] = j - 1][2]
        ELSE Undef]

\* syncHeader's values: the columns, a `_column_` name as ''.
HeaderValues(columns) ==
  [i \in 1..Len(columns) |-> IF StartsWithColumn(columns[i]) THEN "" ELSE columns[i]]

\* collection.data.filter(predicate): holes are skipped.
RECURSIVE Filter(_, _, _)
Filter(data, pred, j) ==
  IF j > Len(data) THEN <<>>
  ELSE IF ~IsHole(data[j]) /\ (j - 1) \in pred
       THEN <<data[j]>> \o Filter(data, pred, j + 1)
       ELSE Filter(data, pred, j + 1)
\* the positions pushed to deleteIndex, ascending
RECURSIVE MatchIndex(_, _, _)
MatchIndex(data, pred, j) ==
  IF j > Len(data) THEN <<>>
  ELSE IF ~IsHole(data[j]) /\ (j - 1) \in pred
       THEN <<j - 1>> \o MatchIndex(data, pred, j + 1)
       ELSE MatchIndex(data, pred, j + 1)

\* A re-stamping that numbers the records from 1.
RestampFromOne(data, ids) ==
  [j \in 1..Len(data) |->
     IF IsHole(data[j]) THEN data[j] ELSE [data[j] EXCEPT !.idx = j, !.id = ids[j]]]
\* collection.data.forEach((item, i) => { item._index = i; item._id = uuid() })
Restamp(data, ids) ==
  [j \in 1..Len(data) |->
     IF IsHole(data[j]) THEN data[j] ELSE [data[j] EXCEPT !.idx = j - 1, !.id = ids[j]]]
\* A stamping that ignores the row cache length.
StampFromZero(recs, len, ids) ==
  [i \in 1..Len(recs) |-> [recs[i] EXCEPT !.idx = i - 1, !.id = ids[i]]]
\* records.forEach((item, i) => { item._index = collection.data.length + i; item._id = uuid() })
Stamp(recs, len, ids) ==
  [i \in 1..Len(recs) |-> [recs[i] EXCEPT !.idx = len + i - 1, !.id = ids[i]]]
\* An assignment that keeps the fields of the old record the new one lacks.
SetSlotMerged(data, index, record) ==
  [j \in 1..Max2(Len(data), index + 1) |->
     IF j = index + 1
     THEN IF j <= Len(data) /\ ~IsHole(data[j])
          THEN [record EXCEPT !.kv = @ \o SelectSeq(data[j].kv,
                                                     LAMBDA p : ~HasKey(record.kv, p[1]))]
          ELSE record
     ELSE IF j <= Len(data) THEN data[j] ELSE HoleRec]
\* collection.data[record._index] = record
SetSlot(data, index, record) ==
  [j \in 1..Max2(Len(data), index + 1) |->
     IF j = index + 1 THEN record
     ELSE IF j <= Len(data) THEN data[j] ELSE HoleRec]
\* this.collections.splice(index, 1)
Splice(reg, index) ==
  IF index < Len(reg)
  THEN [j \in 1..(Len(reg) - 1) |-> IF j <= index THEN reg[j] ELSE reg[j + 1]]
  ELSE reg

IsInsert(op) == op \in {"insert", "insertMany"}

\* An insertMany that goes to the data write without the header write.
insertBodyNoSync(tk, c) ==
  LET c1 == AllocRecords(c, tk.recs, 1)
      values == [i \in 1..Len(tk.recs) |-> ValueOf(c1, tk.recs[i].kv)]
      tk1 == [tk EXCEPT !.values = values, !.startRow = Len(c.data) + 2,
                        !.rangeEnd = Cell(getColumnByIndex(Len(c1.columns)),
                                          Len(values) + Len(c.data) + 1),
                        !.sync = Len(c1.columns) > Len(c.columns),
                        !.header = HeaderValues(c1.columns),
                        !.before = c.data, !.c0 = c]
  IN IF getColumnByIndex(Len(c1.columns)) = ColumnError
     THEN [tk |-> Throw(tk1, ColumnError), c |-> c1]
     ELSE [tk |-> [tk1 EXCEPT !.pc = "writeData"], c |-> c1]
\* insertMany, from `const values = []` to the first await after it.
insertBody(tk, c) ==
  LET c1 == AllocRecords(c, tk.recs, 1)
      values == [i \in 1..Len(tk.recs) |-> ValueOf(c1, tk.recs[i].kv)]
      sync == Len(c1.columns) > Len(c.columns)
      tk1 == [tk EXCEPT !.values = values, !.startRow = Len(c.data) + 2,
                        !.rangeEnd = Cell(getColumnByIndex(Len(c1.columns)),
                                          Len(values) + Len(c.data) + 1),
                        !.sync = sync, !.header = HeaderValues(c1.columns),
                        !.before = c.data, !.c0 = c]
  IN IF getColumnByIndex(Len(c1.columns)) = ColumnError
     THEN [tk |-> Throw(tk1, ColumnError), c |-> c1]
     ELSE [tk |-> [tk1 EXCEPT !.pc = IF sync THEN "syncHeader" ELSE "writeData"], c |-> c1]

\* An update whose range ends one row too far.
updateBodyTwoRows(tk, c) ==
  LET record == tk.recs[1]
      c1 == AllocKeys(c, record.kv, 1)
      sync == Len(c1.columns) > Len(c.columns)
      tk1 == [tk EXCEPT !.values = <<ValueOf(c1, record.kv)>>,
                        !.startRow = record.idx + 2,
                        !.rangeEnd = Cell(getColumnByIndex(Len(c1.columns)),
                                          1 + record.idx + 2),
                        !.sync = sync, !.header = HeaderValues(c1.columns),
                        !.before = c.data, !.c0 = c]
  IN IF getColumnByIndex(Len(c1.columns)) = ColumnError
     THEN [tk |-> Throw(tk1, ColumnError), c |-> c1]
     ELSE [tk |-> [tk1 EXCEPT !.pc = IF sync THEN "syncHeader" ELSE "writeData"], c |-> c1]
\* update, from `const values = []` to the first await after it.
updateBody(tk, c) ==
  LET record == tk.recs[1]
      c1 == AllocKeys(c, record.kv, 1)
      sync == Len(c1.columns) > Len(c.columns)
      tk1 == [tk EXCEPT !.values = <<ValueOf(c1, record.kv)>>,
                        !.startRow = record.idx + 2,
                        !.rangeEnd = Cell(getColumnByIndex(Len(c1.columns)),
                                          1 + record.idx + 1),
                        !.sync = sync, !.header = HeaderValues(c1.columns),
                        !.before = c.data, !.c0 = c]
  IN IF getColumnByIndex(Len(c1.columns)) = ColumnError
     THEN [tk |-> Throw(tk1, ColumnError), c |-> c1]
     ELSE [tk |-> [tk1 EXCEPT !.pc = IF sync THEN "syncHeader" ELSE "writeData"], c |-> c1]

\* find, after materialization.
findBody(tk, c) ==
  LET found == Filter(c.data, tk.pred, 1)
  IN [tk |-> Return(tk, 0, IF tk.op = "findOne" /\ found # <<>> THEN <<found[1]>> ELSE found),
      c |-> c]

\* delete, from `const deleteIndex = []` to the first removeRows, or to the
\* end when nothing matches.
deleteBody(tk, c, ids) ==
  LET deleteIndex == MatchIndex(c.data, tk.pred, 1)
      tk1 == [tk EXCEPT !.before = c.data]
  IN IF deleteIndex = <<>>
     THEN [tk |-> Return(tk1, 0, <<>>), c |-> [c EXCEPT !.data = Restamp(c.data, ids)]]
     ELSE [tk |-> [tk1 EXCEPT !.pc = "removeRows", !.deleteIndex = deleteIndex,
                              !.i = Len(deleteIndex)],
           c |-> c]

\* refreshRecord, from `const sheetName` to readData.
refreshRecordBody(tk, c) ==
  IF getColumnByIndex(Len(c.columns)) = ColumnError
  THEN [tk |-> Throw([tk EXCEPT !.c0 = c], ColumnError), c |-> c]
  ELSE [tk |-> [tk EXCEPT !.pc = "readRow", !.startRow = tk.recs[1].idx + 2,
                          !.i = Len(c.columns), !.c0 = c],
        c |-> c]

Body(tk, c, ids) ==
  CASE IsInsert(tk.op) -> insertBody(tk, c)
    [] tk.op = "update" -> updateBody(tk, c)
    [] tk.op \in {"find", "findOne"} -> findBody(tk, c)
    [] tk.op = "delete" -> deleteBody(tk, c, ids)
    [] tk.op = "refreshRecord" -> refreshRecordBody(tk, c)

\* An initCollection without the `initialized` test, and one that does nothing.
initCollectionAlways(tk, c, ids) ==
  IF c.sheet.grid
  THEN [tk |-> [tk EXCEPT !.pc = "readData", !.sheet = c.sheet], c |-> c]
  ELSE LET m == getCollectionDataBySheet(c.sheet, <<>>, ids)
       IN Body(tk, [c EXCEPT !.columns = m.columns, !.column_map = m.column_map,
                             !.data = m.data, !.initialized = TRUE], ids)
initCollectionSkipped(tk, c, ids) == Body(tk, c, ids)

\* An initCollection that sets the flag before it reads.
initCollectionFlagFirst(tk, c, ids) ==
  IF c.initialized THEN Body(tk, c, ids)
  ELSE IF c.sheet.grid
       THEN [tk |-> [tk EXCEPT !.pc = "readData", !.sheet = c.sheet],
             c |-> [c EXCEPT !.initialized = TRUE]]
       ELSE LET m == getCollectionDataBySheet(c.sheet, <<>>, ids)
            IN Body(tk, [c EXCEPT !.columns = m.columns, !.column_map = m.column_map,
                                  !.data = m.data, !.initialized = TRUE], ids)
\* initCollection up to its await: nothing to do when initialized; otherwise
\* getCollectionDataBySheet reads the sheet, unless it has no rows or columns.
initCollection(tk, c, ids) ==
  IF c.initialized THEN Body(tk, c, ids)
  ELSE IF c.sheet.grid
       THEN [tk |-> [tk EXCEPT !.pc = "readData", !.sheet = c.sheet], c |-> c]
       ELSE LET m == getCollectionDataBySheet(c.sheet, <<>>, ids)
            IN Body(tk, [c EXCEPT !.columns = m.columns, !.column_map = m.column_map,
                                  !.data = m.data, !.initialized = TRUE], ids)

\* ------------------------------------------------------------ the callers
\* What a caller passes in.  Records are held by value: every record given to
\* insert / insertMany is an object of its own (not one the row cache holds,
\* not given twice in one list); update and refreshRecord are also called
\* with the cached object itself (`alias`).  Field names are plain keys (none
\* of Object.prototype's), values non-empty strings.
InputKvs ==
  { <<>>,
    << <<"name", "a">> >>,
    << <<"name", "b">>, <<"x", "a">> >>,
    << <<"x", "b">> >> }
InputRecords == {Rec(NoIndex, Undef, kv) : kv \in InputKvs}
InsertLists == {<<>>} \cup {<<r1, r2>> : r1 \in InputRecords, r2 \in InputRecords}
Positions == 0..(MaxRows - 1)
Preds == SUBSET Positions                  \* a predicate, by the positions it accepts
\* a record for update / refreshRecord: null, a new object, or the object held
\* in the row cache with its "name" set to "b"
NewRecords == {NullRec} \cup {Rec(k, Undef, kv) : k \in {NoIndex} \cup Positions, kv \in InputKvs}
CachedRecords(name) ==
  LET cid == FindCollection(name)
  IN IF cid = 0 THEN {}
     ELSE {coll[cid].data[j] : j \in {k \in 1..Len(coll[cid].data) : ~IsHole(coll[cid].data[k])}}
Edited(r) == [r EXCEPT !.kv = Put(@, "name", "b")]

\* the caller's previous call, when it was an insert into a name the registry
\* did not hold and it returned
CreatedBy(old) == IsInsert(old.op) /\ old.status = "ok" /\ old.fresh /\ old.recs # <<>>
Initialized(cid) == cid # 0 /\ coll[cid].initialized
CanStart(t) == task[t].pc \in {"idle", "done"} /\ nops < MaxOps
Begin(t, op, name) ==
  [IdleTask EXCEPT !.pc = "run", !.op = op, !.name = name,
                   !.prev = IF CreatedBy(task[t]) THEN task[t].name ELSE "none",
                   !.prevRecs = IF CreatedBy(task[t]) THEN task[t].recs ELSE <<>>,
                   !.retry = /\ task[t].failedAt = "readData" /\ task[t].name = name
                             /\ task[t].op \notin {"refreshCollection", "refreshAll"},
                   \* another caller's call on this name is suspended in materialization
                   !.overlapped = \E u \in Tasks \ {t} :
                                    /\ task[u].pc \in {"readData", "gotData"}
                                    /\ task[u].name = name /\ task[u].cid # 0
                                    /\ ~coll[task[u].cid].initialized]

\* One step of caller t: its task becomes tk, its collection object c, the
\* registry reg.
Commit(t, tk, c, reg) ==
  /\ UNCHANGED column
  /\ task' = [task EXCEPT ![t] = tk]
  /\ collections' = reg
  /\ coll' = Collect(IF tk.cid = 0 THEN coll ELSE [coll EXCEPT ![tk.cid] = c], reg, task')
Own(t) == IF task[t].cid = 0 THEN NullColl ELSE coll[task[t].cid]
CommitOut(t, out) == Commit(t, out.tk, out.c, collections)

Held(t) == {task[u].cid : u \in {v \in Tasks \ {t} : task[v].pc # "idle"}}
FreeIn(t, reg) == {c \in CIds : c \notin Range(reg) /\ c \notin Held(t)}
FreeCid(t, reg) == CHOOSE c \in FreeIn(t, reg) : \A d \in FreeIn(t, reg) : c <= d

\* ---- find / findOne
findStart(t, op, name, pred) ==
  /\ CanStart(t)
  /\ nops' = nops + 1
  /\ UNCHANGED <<sheets, cells>>
  /\ LET cid == FindCollection(name)
         tk == [Begin(t, op, name) EXCEPT !.pred = pred, !.cid = cid,
                                          !.wasInit = Initialized(cid)]
     IN IF cid = 0
        THEN Commit(t, Return(tk, 0, <<>>), NullColl, collections)
        ELSE \E ids \in IdSeqs : CommitOut(t, initCollection(tk, coll[cid], ids))
find(t) == \E name \in Names, pred \in {Positions, {0}} : findStart(t, "find", name, pred)
findOne(t) == \E name \in Names, pred \in {Positions, {1, 2}} : findStart(t, "findOne", name, pred)

\* ---- delete
delete(t) ==
  \E name \in Names, pred \in Preds :
    /\ CanStart(t)
    /\ nops' = nops + 1
    /\ UNCHANGED <<sheets, cells>>
    /\ LET cid == FindCollection(name)
           tk == [Begin(t, "delete", name) EXCEPT
                    !.pred = pred, !.cid = cid,
                    !.wasInit = Initialized(cid),
                    !.regBefore = RegistryNames(collections, coll)]
       IN IF cid = 0
          THEN Commit(t, Return(tk, 0, <<>>), NullColl, collections)
          ELSE \E ids \in IdSeqs : CommitOut(t, initCollection(tk, coll[cid], ids))

\* Argument checks without the `typeof record._index` test.
checkedNoIndexTest(t, op, name, record, alias) ==
  /\ CanStart(t)
  /\ nops' = nops + 1
  /\ UNCHANGED <<sheets, cells>>
  /\ LET cid == FindCollection(name)
         tk == [Begin(t, op, name) EXCEPT !.recs = <<record>>, !.cid = cid, !.alias = alias,
                                          !.wasInit = Initialized(cid)]
     IN IF cid = 0
        THEN Commit(t, Throw(tk, "Collection not exists"), NullColl, collections)
        ELSE IF IsNull(record)
        THEN Commit(t, Throw(tk, "Invalid record"), coll[cid], collections)
        ELSE \E ids \in IdSeqs : CommitOut(t, initCollection(tk, coll[cid], ids))
\* ---- update / refreshRecord: the argument checks, then initCollection
checked(t, op, name, record, alias) ==
  /\ CanStart(t)
  /\ nops' = nops + 1
  /\ UNCHANGED <<sheets, cells>>
  /\ LET cid == FindCollection(name)
         tk == [Begin(t, op, name) EXCEPT !.recs = <<record>>, !.cid = cid, !.alias = alias,
                                          !.wasInit = Initialized(cid)]
     IN IF cid = 0
        THEN Commit(t, Throw(tk, "Collection not exists"), NullColl, collections)
        ELSE IF IsNull(record)
        THEN Commit(t, Throw(tk, "Invalid record"), coll[cid], collections)
        ELSE IF record.idx = NoIndex
        THEN Commit(t, Throw(tk, "Invalid index"), coll[cid], collections)
        ELSE \E ids \in IdSeqs :
               \* a caller that edits the cached object has changed the row cache
               CommitOut(t, initCollection(tk,
                 IF alias THEN [coll[cid] EXCEPT !.data[record.idx + 1] = record]
                 ELSE coll[cid], ids))
update(t) ==
  \E name \in Names :
    \/ \E record \in NewRecords : checked(t, "update", name, record, FALSE)
    \/ \E record \in CachedRecords(name) : checked(t, "update", name, Edited(record), TRUE)
refreshRecord(t) ==
  \E name \in Names :
    \/ \E record \in NewRecords : checked(t, "refreshRecord", name, record, FALSE)
    \/ \E record \in CachedRecords(name) : checked(t, "refreshRecord", name, record, TRUE)

\* An insertMany without the `!records.length` test.
insertStartAnyLength(t, op, name, records) ==
  /\ CanStart(t)
  /\ nops' = nops + 1
  /\ UNCHANGED <<sheets, cells>>
  /\ LET found == FindCollection(name)
         cid == IF found = 0 THEN FreeCid(t, collections) ELSE found
         c == IF found = 0 THEN Coll(name, NoSheet, <<>>, EmptyMap, <<>>, FALSE) ELSE coll[found]
         tk == [Begin(t, op, name) EXCEPT !.recs = records, !.fresh = (found = 0),
                                          !.wasInit = c.initialized]
     IN IF c.sheet = NoSheet
        THEN Commit(t, [tk EXCEPT !.cid = cid, !.pc = "createSheet"], c, collections)
        ELSE \E ids \in IdSeqs : CommitOut(t, initCollection([tk EXCEPT !.cid = cid], c, ids))
\* ---- insert / insertMany
insertStart(t, op, name, records) ==
  /\ CanStart(t)
  /\ nops' = nops + 1
  /\ UNCHANGED <<sheets, cells>>
  /\ LET found == FindCollection(name)
         cid == IF found = 0 THEN FreeCid(t, collections) ELSE found
         c == IF found = 0 THEN Coll(name, NoSheet, <<>>, EmptyMap, <<>>, FALSE) ELSE coll[found]
         tk == [Begin(t, op, name) EXCEPT !.recs = records, !.fresh = (found = 0),
                                          !.wasInit = c.initialized]
     IN IF records = <<>>
        THEN Commit(t, Return(tk, 0, <<>>), NullColl, collections)
        ELSE IF c.sheet = NoSheet
        THEN Commit(t, [tk EXCEPT !.cid = cid, !.pc = "createSheet"], c, collections)
        ELSE \E ids \in IdSeqs : CommitOut(t, initCollection([tk EXCEPT !.cid = cid], c, ids))
\* the rows the sheet and the row cache hold stay within MaxRows
Room(name, n) ==
  /\ Len(cells[name]) - 1 + n <= MaxRows
  /\ FindCollection(name) # 0 => Len(coll[FindCollection(name)].data) + n <= MaxRows
insert(t) ==
  \E name \in Names, record \in InputRecords :
    Room(name, 1) /\ insertStart(t, "insert", name, <<record>>)
insertMany(t) ==
  \E name \in Names, records \in InsertLists :
    Room(name, Len(records)) /\ insertStart(t, "insertMany", name, records)

\* ---- initialize / refreshCollection / refreshAll
initialize(t) ==
  /\ CanStart(t)
  /\ nops' = nops + 1
  /\ UNCHANGED <<sheets, cells>>
  /\ Commit(t, [Begin(t, "initialize", "") EXCEPT !.pc = "authenticate"], NullColl, collections)
refreshCollection(t) ==
  \E name \in Names :
    /\ CanStart(t)
    /\ nops' = nops + 1
    /\ UNCHANGED <<sheets, cells>>
    /\ LET cid == FindCollection(name)
           tk == [Begin(t, "refreshCollection", name) EXCEPT
                    !.cid = cid, !.c0 = IF cid = 0 THEN NullColl ELSE coll[cid]]
       IN IF cid = 0
          THEN Commit(t, Throw(tk, "Collection not exists"), NullColl, collections)
          ELSE Commit(t, [tk EXCEPT !.pc = "getSheets"], coll[cid], collections)
refreshAll(t) ==
  /\ CanStart(t)
  /\ nops' = nops + 1
  /\ UNCHANGED <<sheets, cells>>
  /\ Commit(t, [Begin(t, "refreshAll", "") EXCEPT
                  !.pc = "getSheets", !.regBefore = RegistryNames(collections, coll)],
            NullColl, collections)

\* ------------------------------------------------- the awaited remote calls
\* await this.googleSheet.authenticate()
authenticate(t) ==
  /\ task[t].pc = "authenticate"
  /\ UNCHANGED <<sheets, cells, nops>>
  /\ Commit(t, [task[t] EXCEPT !.pc = "getSheets"], NullColl, collections)

\* spreadsheets.get answers with the sheets' properties
getSheets(t) ==
  /\ task[t].pc = "getSheets"
  /\ UNCHANGED <<sheets, cells, nops>>
  /\ Commit(t, [task[t] EXCEPT !.pc = "gotSheets", !.gotSheets = sheets],
            Own(t), collections)

\* initialize after getSheets: one uninitialized shell per sheet
Shell(sheet) == Coll(sheet.title, sheet, <<>>, EmptyMap, <<>>, FALSE)
RECURSIVE PushShells(_, _, _, _, _)
PushShells(t, list, i, reg, cl) ==
  IF i > Len(list) THEN [reg |-> reg, cl |-> cl]
  ELSE LET cid == FreeCid(t, reg)
       IN PushShells(t, list, i + 1, Append(reg, cid), [cl EXCEPT ![cid] = Shell(list[i])])
initializeDone(t) ==
  /\ task[t].pc = "gotSheets" /\ task[t].op = "initialize"
  /\ UNCHANGED <<sheets, cells, nops>>
  /\ LET out == PushShells(t, task[t].gotSheets, 1, <<>>, coll)
     IN /\ UNCHANGED column
        /\ task' = [task EXCEPT ![t] = Return(task[t], 0, <<>>)]
        /\ collections' = out.reg
        /\ coll' = Collect(out.cl, out.reg, task')

\* A request that names a sheet the spreadsheet does not hold is rejected.
SheetExists(name) == \E i \in 1..Len(sheets) : sheets[i].title = name
RangeError == "Unable to parse range"

\* spreadsheets.values.get of the sheet's whole range answers with its used rows
readData(t) ==
  /\ task[t].pc = "readData"
  /\ UNCHANGED <<sheets, cells, nops>>
  /\ IF SheetExists(task[t].sheet.title)
     THEN Commit(t, [task[t] EXCEPT !.pc = "gotData", !.rows = cells[task[t].sheet.title]],
                 Own(t), collections)
     ELSE Commit(t, Throw(task[t], RangeError), Own(t), collections)

TypeError == "TypeError: Cannot read property '0' of undefined"

\* An initCollection that tests the flag again after its await.
initCollectionDoneRechecking(t) ==
  /\ task[t].pc = "gotData"
  /\ task[t].op \notin {"refreshCollection", "refreshAll"}
  /\ UNCHANGED <<sheets, cells, nops>>
  /\ LET tk == task[t]
         c == coll[tk.cid]
     IN IF tk.rows = <<>>
        THEN Commit(t, Throw(tk, TypeError), c, collections)
        ELSE \E ids \in IdSeqs, ids2 \in IdSeqs :
               LET m == getCollectionDataBySheet(tk.sheet, tk.rows, ids)
               IN CommitOut(t, Body([tk EXCEPT !.rows = <<>>, !.sheet = NoSheet],
                                    IF c.initialized THEN c
                                    ELSE [c EXCEPT !.columns = m.columns,
                                                   !.column_map = m.column_map,
                                                   !.data = m.data, !.initialized = TRUE],
                                    ids2))
\* initCollection after its await, then the operation's own code
initCollectionDone(t) ==
  /\ task[t].pc = "gotData"
  /\ task[t].op \notin {"refreshCollection", "refreshAll"}
  /\ UNCHANGED <<sheets, cells, nops>>
  /\ LET tk == task[t]
         c == coll[tk.cid]
     IN IF tk.rows = <<>>
        THEN Commit(t, Throw(tk, TypeError), c, collections)
        ELSE \E ids \in IdSeqs, ids2 \in IdSeqs :
               LET m == getCollectionDataBySheet(tk.sheet, tk.rows, ids)
               IN CommitOut(t, Body([tk EXCEPT !.rows = <<>>, !.sheet = NoSheet],
                                    [c EXCEPT !.columns = m.columns,
                                              !.column_map = m.column_map,
                                              !.data = m.data, !.initialized = TRUE],
                                    ids2))

\* refreshCollection after getSheets, and after getCollectionDataBySheet
Reload(c, sheet, m) ==
  [c EXCEPT !.name = sheet.title, !.sheet = sheet, !.columns = m.columns,
            !.column_map = m.column_map, !.data = m.data, !.initialized = TRUE]
\* A refreshCollection that empties the collection of a sheet it cannot find.
refreshCollectionSheetClearing(t) ==
  /\ task[t].pc = "gotSheets" /\ task[t].op = "refreshCollection"
  /\ UNCHANGED <<sheets, cells, nops>>
  /\ LET tk == task[t]
         c == coll[tk.cid]
         hit == {i \in 1..Len(tk.gotSheets) : tk.gotSheets[i].title = tk.name}
     IN IF hit = {}
        THEN Commit(t, Throw(tk, "Sheet not found"),
                    [c EXCEPT !.columns = <<>>, !.column_map = EmptyMap, !.data = <<>>,
                              !.initialized = FALSE], collections)
        ELSE LET sheet == tk.gotSheets[CHOOSE i \in hit : \A j \in hit : i <= j]
             IN IF sheet.grid
                THEN Commit(t, [tk EXCEPT !.pc = "readData", !.sheet = sheet,
                                          !.gotSheets = <<>>], c, collections)
                ELSE Commit(t, Return(tk, 0, <<>>),
                            Reload(c, sheet, getCollectionDataBySheet(sheet, <<>>, <<>>)),
                            collections)
refreshCollectionSheet(t) ==
  /\ task[t].pc = "gotSheets" /\ task[t].op = "refreshCollection"
  /\ UNCHANGED <<sheets, cells, nops>>
  /\ LET tk == task[t]
         c == coll[tk.cid]
         hit == {i \in 1..Len(tk.gotSheets) : tk.gotSheets[i].title = tk.name}
     IN IF hit = {}
        THEN Commit(t, Throw(tk, "Sheet not found"), c, collections)
        ELSE LET sheet == tk.gotSheets[CHOOSE i \in hit : \A j \in hit : i <= j]
             IN IF sheet.grid
                THEN Commit(t, [tk EXCEPT !.pc = "readData", !.sheet = sheet,
                                          !.gotSheets = <<>>], c, collections)
                ELSE Commit(t, Return(tk, 0, <<>>),
                            Reload(c, sheet, getCollectionDataBySheet(sheet, <<>>, <<>>)),
                            collections)
refreshCollectionDone(t) ==
  /\ task[t].pc = "gotData" /\ task[t].op = "refreshCollection"
  /\ UNCHANGED <<sheets, cells, nops>>
  /\ LET tk == task[t]
         c == coll[tk.cid]
     IN IF tk.rows = <<>>
        THEN Commit(t, Throw(tk, TypeError), c, collections)
        ELSE \E ids \in IdSeqs :
               Commit(t, Return(tk, 0, <<>>),
                      Reload(c, tk.sheet, getCollectionDataBySheet(tk.sheet, tk.rows, ids)),
                      collections)

\* A loop that pushes nothing for a sheet without rows or columns.
RECURSIVE refreshAllFromSkipping(_, _, _, _, _)
refreshAllFromSkipping(t, tk, i, reg, cl) ==
  IF i > Len(tk.gotSheets) THEN [tk |-> Return(tk, 0, <<>>), reg |-> reg, cl |-> cl]
  ELSE IF tk.gotSheets[i].grid
       THEN [tk |-> [tk EXCEPT !.pc = "readData", !.sheet = tk.gotSheets[i], !.i = i],
             reg |-> reg, cl |-> cl]
       ELSE refreshAllFromSkipping(t, tk, i + 1, reg, cl)
\* refreshAll: the loop over the sheets, from sheet i to the next await
RECURSIVE refreshAllFrom(_, _, _, _, _)
refreshAllFrom(t, tk, i, reg, cl) ==
  IF i > Len(tk.gotSheets) THEN [tk |-> Return(tk, 0, <<>>), reg |-> reg, cl |-> cl]
  ELSE LET sheet == tk.gotSheets[i]
           cid == FreeCid(t, reg)
       IN IF sheet.grid
          THEN [tk |-> [tk EXCEPT !.pc = "readData", !.sheet = sheet, !.i = i],
                reg |-> reg, cl |-> cl]
          ELSE refreshAllFrom(t, tk, i + 1, Append(reg, cid),
                              [cl EXCEPT ![cid] = getCollectionDataBySheet(sheet, <<>>, <<>>)])
\* A refreshAll without `this.collections.length = 0`.
refreshAllLoopKeeping(t) ==
  /\ task[t].pc = "gotSheets" /\ task[t].op = "refreshAll"
  /\ UNCHANGED <<sheets, cells, nops>>
  /\ LET out == refreshAllFrom(t, task[t], 1, collections, coll)
     IN /\ UNCHANGED column
        /\ task' = [task EXCEPT ![t] = out.tk]
        /\ collections' = out.reg
        /\ coll' = Collect(out.cl, out.reg, task')
refreshAllLoop(t) ==
  /\ task[t].pc = "gotSheets" /\ task[t].op = "refreshAll"
  /\ UNCHANGED <<sheets, cells, nops>>
  \* this.collections.length = 0
  /\ LET out == refreshAllFrom(t, task[t], 1, <<>>, coll)
     IN /\ UNCHANGED column
        /\ task' = [task EXCEPT ![t] = out.tk]
        /\ collections' = out.reg
        /\ coll' = Collect(out.cl, out.reg, task')
refreshAllPush(t) ==
  /\ task[t].pc = "gotData" /\ task[t].op = "refreshAll"
  /\ UNCHANGED <<sheets, cells, nops>>
  /\ LET tk == task[t]
     IN IF tk.rows = <<>>
        THEN Commit(t, Throw(tk, TypeError), NullColl, collections)
        ELSE \E ids \in IdSeqs :
               LET cid == FreeCid(t, collections)
                   reg == Append(collections, cid)
                   cl == [coll EXCEPT ![cid] = getCollectionDataBySheet(tk.sheet, tk.rows, ids)]
                   out == refreshAllFrom(t, [tk EXCEPT !.rows = <<>>], tk.i + 1, reg, cl)
               IN /\ UNCHANGED column
                  /\ task' = [task EXCEPT ![t] = out.tk]
                  /\ collections' = out.reg
                  /\ coll' = Collect(out.cl, out.reg, task')

\* ---- insertMany's createSheet: batchUpdate addSheet, then applyHeaderStyle
createSheet(t) ==
  /\ task[t].pc = "createSheet"
  /\ UNCHANGED <<cells, nops>>
  /\ LET tk == task[t]
     IN IF \E i \in 1..Len(sheets) : sheets[i].title = tk.name
        THEN \* the service rejects a second sheet of the same title
             /\ UNCHANGED sheets
             /\ Commit(t, Throw(tk, "addSheet: the sheet already exists"), Own(t), collections)
        ELSE /\ sheets' = Append(sheets, Sheet(tk.name, TRUE))
             /\ Commit(t, [tk EXCEPT !.pc = "applyHeaderStyle", !.sheet = Sheet(tk.name, TRUE)],
                       Own(t), collections)
applyHeaderStyle(t) ==
  /\ task[t].pc = "applyHeaderStyle"
  /\ UNCHANGED <<sheets, cells, nops>>
  \* collection.sheet = await this.createSheet(collection.name)
  /\ CommitOut(t, insertBody([task[t] EXCEPT !.sheet = NoSheet],
                             [Own(t) EXCEPT !.sheet = task[t].sheet]))

\* A range of a sheet without rows or columns exceeds the grid: the service
\* rejects the call.
HasGrid(name) == \E i \in 1..Len(sheets) : sheets[i].title = name /\ sheets[i].grid
GridError == "Range exceeds grid limits"

\* ---- syncHeader's writeData: row 1, over the full column width
syncHeader(t) ==
  /\ task[t].pc = "syncHeader"
  /\ UNCHANGED <<sheets, nops>>
  /\ LET \* writeData(`${sheetName}!A1:${getColumnByIndex(columns.length)}1`, values)
         tk == [task[t] EXCEPT !.writes = Append(@,
                  [kind |-> "header", from |-> Cell("A", 1),
                   to |-> Cell(getColumnByIndex(Len(task[t].header)), 1)])]
     IN IF HasGrid(task[t].name)
        THEN /\ cells' = [cells EXCEPT ![task[t].name] = WriteGrid(@, 1, <<task[t].header>>)]
             /\ Commit(t, [tk EXCEPT !.pc = "writeData"], Own(t), collections)
        ELSE /\ UNCHANGED cells
             /\ Commit(t, Throw(tk, GridError), Own(t), collections)

\* ---- the data write of insertMany / update, and the code after it
insertDone(tk, c, ids) ==
  LET stamped == Stamp(tk.recs, Len(c.data), ids)
  IN [tk |-> Return([tk EXCEPT !.out = stamped],
                    IF tk.op = "insertMany" THEN Len(tk.values) ELSE 0, <<>>),
      c |-> [c EXCEPT !.data = @ \o stamped]]
updateDone(tk, c) ==
  [tk |-> Return(tk, 1, <<>>),
   c |-> [c EXCEPT !.data = SetSlot(@, tk.recs[1].idx, tk.recs[1])]]
writeData(t) ==
  /\ task[t].pc = "writeData"
  /\ UNCHANGED <<sheets, nops>>
  /\ LET \* writeData(`${sheetName}!${rangeStart}:${rangeEnd}`, values)
         tk == [task[t] EXCEPT !.writes = Append(@,
                  [kind |-> "data", from |-> Cell("A", task[t].startRow),
                   to |-> task[t].rangeEnd])]
     IN IF HasGrid(task[t].name)
        THEN /\ cells' = [cells EXCEPT
                           ![task[t].name] = WriteGrid(@, task[t].startRow, task[t].values)]
             /\ \E ids \in IdSeqs :
                  CommitOut(t, IF IsInsert(task[t].op) THEN insertDone(tk, Own(t), ids)
                               ELSE updateDone(tk, Own(t)))
        ELSE /\ UNCHANGED cells
             /\ Commit(t, Throw(tk, GridError), Own(t), collections)

\* ---- delete's loop: removeRows(sheetId, index + 1, 1), then the splice
removeRows(t) ==
  /\ task[t].pc = "removeRows"
  /\ UNCHANGED <<sheets, nops>>
  /\ LET index == task[t].deleteIndex[task[t].i]
         \* removeRows(collection.sheet.sheetId, index + 1, 1)
         tk == [task[t] EXCEPT !.removed = Append(@, <<index + 1, 1>>)]
         c == Own(t)
         reg == Splice(collections, index)
     IN IF SheetExists(c.sheet.title)
        THEN /\ cells' = [cells EXCEPT ![c.sheet.title] = RemoveGridRow(@, index + 1)]
             /\ IF tk.i > 1
                THEN Commit(t, [tk EXCEPT !.i = tk.i - 1], c, reg)
                ELSE \E ids \in IdSeqs :
                       Commit(t, Return(tk, Len(tk.deleteIndex), <<>>),
                              [c EXCEPT !.data = Restamp(@, ids)], reg)
        ELSE /\ UNCHANGED cells
             /\ Commit(t, Throw(tk, RangeError), c, collections)

\* ---- refreshRecord's readData of the one row, and the code after it
readRow(t) ==
  /\ task[t].pc = "readRow"
  /\ UNCHANGED <<sheets, cells, nops>>
  /\ LET tk == task[t]
         row == GridRow(cells[tk.name], tk.startRow)
         cut == Trim(SubSeq(row, 1, IF tk.i < Len(row) THEN tk.i ELSE Len(row)))
     IN IF HasGrid(tk.name)
        THEN Commit(t, [tk EXCEPT !.pc = "gotRow",
                                  !.rows = IF cut = <<>> THEN <<>> ELSE <<cut>>],
                    Own(t), collections)
        ELSE Commit(t, Throw(tk, GridError), Own(t), collections)
\* A refresh that copies every column of the row onto the record.
RefreshedAll(c, record, rowItem) ==
  [record EXCEPT !.kv = ItemKv(c.columns, c.column_map, rowItem, 1, @)]
\* refreshRecord, from `const item` to its end: record[key] = item[key] for
\* the record's own keys.
Refreshed(c, record, rowItem) ==
  LET item == ItemKv(c.columns, c.column_map, rowItem, 1, <<>>)
  IN [record EXCEPT !.kv = [i \in 1..Len(record.kv) |->
                              <<record.kv[i][1], Get(item, record.kv[i][1])>>]]
refreshRecordDone(t) ==
  /\ task[t].pc = "gotRow"
  /\ UNCHANGED <<sheets, cells, nops>>
  /\ LET tk == task[t]
         c == Own(t)
     IN IF tk.rows = <<>>
        THEN Commit(t, Throw(tk, TypeError), c, collections)
        ELSE LET record == Refreshed(c, tk.recs[1], tk.rows[1])
             IN Commit(t, Return([tk EXCEPT !.out = <<record>>], 0, <<>>),
                       IF tk.alias THEN [c EXCEPT !.data[record.idx + 1] = record] ELSE c,
                       collections)

\* ------------------------------------------------------------ specification
Step(t) ==
  \/ initialize(t) \/ authenticate(t) \/ getSheets(t) \/ initializeDone(t)
  \/ readData(t) \/ initCollectionDone(t)
  \/ insert(t) \/ insertMany(t) \/ createSheet(t) \/ applyHeaderStyle(t)
  \/ syncHeader(t) \/ writeData(t)
  \/ find(t) \/ findOne(t)
  \/ delete(t) \/ removeRows(t)
  \/ update(t)
  \/ refreshRecord(t) \/ readRow(t) \/ refreshRecordDone(t)
  \/ refreshCollection(t) \/ refreshCollectionSheet(t) \/ refreshCollectionDone(t)
  \/ refreshAll(t) \/ refreshAllLoop(t) \/ refreshAllPush(t)

\* A single caller: each call is awaited before the next is made.
Next == Step("t1")
Spec == Init /\ [][Next]_vars

\* ------------------------------------------- failures and external edits
\* Any awaited remote call may be rejected (network, quota, authorization):
\* the rejection propagates out of the enclosing operation.
RemotePcs == {"authenticate", "getSheets", "readData", "createSheet", "applyHeaderStyle",
              "syncHeader", "writeData", "removeRows", "readRow"}
RemoteError == "remote call rejected"
remoteFails(t) ==
  /\ task[t].pc \in RemotePcs
  /\ UNCHANGED <<sheets, cells, nops>>
  /\ Commit(t, [Throw(task[t], RemoteError) EXCEPT !.failedAt = task[t].pc],
            Own(t), collections)

\* Between two calls somebody else deletes a sheet the registry holds a
\* collection of.
Without(list, title) ==
  LET keep == {i \in 1..Len(list) : list[i].title # title}
      at(k) == CHOOSE i \in keep : Cardinality({j \in keep : j <= i}) = k
  IN [k \in 1..Cardinality(keep) |-> list[at(k)]]
sheetDeleted ==
  \E name \in Names :
    /\ \A t \in Tasks : task[t].pc \in {"idle", "done"}
    /\ SheetExists(name) /\ FindCollection(name) # 0
    /\ sheets' = Without(sheets, name)
    /\ cells' = [cells EXCEPT ![name] = <<>>]
    /\ UNCHANGED <<collections, coll, task, nops, column>>

NextFaults == Step("t1") \/ remoteFails("t1")
SpecFaults == Init /\ [][NextFaults]_vars
NextEdits == Step("t1") \/ sheetDeleted
SpecEdits == Init /\ [][NextEdits]_vars

\* ------------------------------------------------------------ two callers
\* A second caller issues finds while the first caller's call is suspended:
\* the steps of the two calls interleave at the awaited remote calls.
StepReader(t) ==
  \/ find(t) \/ findOne(t)
  \/ readData(t) \/ initCollectionDone(t)
NextTwo == Step("t1") \/ StepReader("t2")
SpecTwo == Init /\ [][NextTwo]_vars

\* ------------------------------------------------- getColumnByIndex alone
\* getColumnByIndex applied to one offset, drawn from the offsets a sheet of
\* up to MaxIndex columns has and the first few that are out of range.
Indices == (0 - 2)..MaxIndex
InitColumn ==
  /\ collections = <<>>
  /\ coll = [c \in CIds |-> NullColl]
  /\ sheets = <<>>
  /\ cells = [n \in Names |-> <<>>]
  /\ task = [t \in Tasks |-> IdleTask]
  /\ nops = 0
  /\ \E n \in Indices : column = [index |-> n, letters |-> Pending]
columnOf ==
  /\ column.letters = Pending
  /\ column' = [column EXCEPT !.letters = getColumnByIndex(column.index)]
  /\ UNCHANGED <<collections, coll, sheets, cells, task, nops>>
NextColumn == columnOf
SpecColumn == InitColumn /\ [][NextColumn]_vars

\* ------------------------------------------------------------- properties
Done(t) == task[t].pc = "done"
Returned(t) == task[t].pc = "done" /\ task[t].status = "ok"
Quiet == \A t \in Tasks : task[t].pc \in {"idle", "done"}
Registered == Range(collections)
\* the operations that start with initCollection
BodyOps == {"insert", "insertMany", "update", "find", "findOne", "delete", "refreshRecord"}

\* C1: after a successful insert of {name: "a"} into a name the registry does
\* not hold, find on that name with the match-all predicate returns exactly one
\* record, with name "a", _index 0 and a non-empty _id.
C1_InsertFindRoundTrip ==
  \A t \in Tasks :
    ( /\ Returned(t) /\ task[t].op = "find" /\ task[t].pred = Positions
      /\ task[t].prev = task[t].name
      /\ Len(task[t].prevRecs) = 1
      /\ task[t].prevRecs[1].kv = << <<"name", "a">> >> )
    => /\ Len(task[t].result) = 1
       /\ Get(task[t].result[1].kv, "name") = "a"
       /\ task[t].result[1].idx = 0
       /\ task[t].result[1].id \in UUIDs

\* C2: after a successful delete the row cache holds exactly the records that
\* did not match, in their order, re-indexed 0..m-1, each with a generated _id.
C2_DeleteRemovesMatched ==
  \A t \in Tasks :
    (Returned(t) /\ task[t].op = "delete" /\ task[t].cid # 0)
    => LET kept == Filter(task[t].before, Positions \ task[t].pred, 1)
           data == coll[task[t].cid].data
           left == Filter(data, Positions, 1)
       IN /\ Len(left) = Len(kept)
          /\ \A j \in 1..Len(kept) : left[j].kv = kept[j].kv /\ left[j].id \in UUIDs
          /\ \A j \in 1..Len(data) : ~IsHole(data[j]) => data[j].idx = j - 1

\* C3: a delete leaves the set of collections held in the registry as it was.
C3_DeleteKeepsRegistry ==
  \A t \in Tasks :
    (Done(t) /\ task[t].op = "delete")
    => Range(RegistryNames(collections, coll)) = Range(task[t].regBefore)

\* C4: once an insert has created the collection for a name, a later insert
\* into that name does not issue createSheet again.
C4_CreateSheetOnce ==
  \A t \in Tasks :
    (IsInsert(task[t].op) /\ task[t].prev = task[t].name) => task[t].pc # "createSheet"

\* C5: a successful insertMany of N records into a row cache of length L stamps
\* the i-th input record with _index L + i, appends the records in input order
\* (row cache length L + N) and returns N.
C5_InsertStampsAndAppends ==
  \A t \in Tasks :
    (Returned(t) /\ IsInsert(task[t].op) /\ task[t].recs # <<>>)
    => LET L == Len(task[t].before)
           N == Len(task[t].recs)
           data == coll[task[t].cid].data
       IN /\ Len(data) = L + N
          /\ SubSeq(data, 1, L) = task[t].before
          /\ Len(task[t].out) = N
          /\ \A i \in 1..N :
               /\ task[t].out[i].idx = L + i - 1
               /\ task[t].out[i].kv = task[t].recs[i].kv
               /\ task[t].out[i].id \in UUIDs
               /\ data[L + i] = task[t].out[i]
          /\ task[t].op = "insertMany" => task[t].ret = N
C5_Witness ==
  \E t \in Tasks :
    /\ Returned(t) /\ task[t].op = "insertMany"
    /\ Len(task[t].before) = 1 /\ Len(task[t].recs) = 2
    /\ task[t].out[2].idx = 2

\* C6: with a single caller and no external edit, between calls every record
\* of an initialized registered collection holds the values of remote row
\* _index + 2 at its fields' column offsets, and the sheet has no data row
\* past the row cache.
CellOf(v) == IF v = Undef THEN "" ELSE v
RowMatches(c, r, row) ==
  \A i \in 1..Len(r.kv) :
    r.kv[i][1] \in DOMAIN c.column_map
      => CellAt(row, c.column_map[r.kv[i][1]] + 1) = CellOf(r.kv[i][2])
Corresponds(c) ==
  /\ Len(cells[c.name]) <= Len(c.data) + 1
  /\ \A j \in 1..Len(c.data) :
       ~IsHole(c.data[j]) => RowMatches(c, c.data[j], GridRow(cells[c.name], c.data[j].idx + 2))
C6_CacheMatchesRemote ==
  Quiet => \A c \in Registered : coll[c].initialized => Corresponds(coll[c])

Monotonic(c0, c1) ==
  LET old == DOMAIN c0.column_map
      new == DOMAIN c1.column_map
  IN /\ \A n \in old : n \in new /\ c1.column_map[n] = c0.column_map[n]
     /\ Len(c1.columns) = Len(c0.columns) + Cardinality(new \ old)
     /\ \A n \in new \ old :
          /\ c1.column_map[n] >= Len(c0.columns)
          /\ c1.column_map[n] < Len(c1.columns)
          /\ c1.columns[c1.column_map[n] + 1] = n
     /\ \A n \in new, m \in new : c1.column_map[n] = c1.column_map[m] => n = m
C8_ColumnsMonotonic ==
  [][\A t \in Tasks :
       (task'[t] # task[t] /\ task'[t].op \in BodyOps)
       => /\ \A c \in Registered \cap Range(collections') : Monotonic(coll[c], coll'[c])
          /\ (task[t].pc \notin {"idle", "done"} /\ task[t].cid # 0)
               => Monotonic(coll[task[t].cid], coll'[task[t].cid])]_vars
C8_Witness ==
  \E t \in Tasks :
    /\ Returned(t) /\ task[t].op = "update" /\ task[t].wasInit
    /\ task[t].cid \in Registered
    /\ coll[task[t].cid].columns = <<"x", "name">>
    /\ coll[task[t].cid].column_map["name"] = 1

\* C9: a call on a collection that is initialized issues no materialization
\* read, and its initCollection leaves row cache and Column Index alone.
C9_MaterializeOnce ==
  [][\A t \in Tasks :
       ( /\ task[t].pc \in {"idle", "done"} /\ task'[t].pc # task[t].pc
         /\ task'[t].op \in BodyOps /\ task'[t].wasInit )
       => /\ task'[t].pc \notin {"readData", "gotData"}
          /\ task'[t].op \in {"find", "findOne", "refreshRecord"}
               => coll'[task'[t].cid] = coll[task'[t].cid]]_vars
C9_Witness ==
  \E t \in Tasks :
    /\ Returned(t) /\ task[t].op = "find" /\ task[t].wasInit
    /\ Len(task[t].result) >= 2

\* C10: find, update, delete, refreshRecord and insert into a collection that
\* has a sheet use the collection only once it is initialized.
UsePcs == {"syncHeader", "writeData", "removeRows", "readRow", "gotRow"}
C10_MaterializeBeforeUse ==
  \A t \in Tasks :
    ( /\ task[t].op \in BodyOps /\ task[t].cid # 0 /\ ~task[t].fresh
      /\ (task[t].pc \in UsePcs \/ Returned(t)) )
    => coll[task[t].cid].initialized
C10_Witness ==
  \E t \in Tasks :
    /\ task[t].op = "update" /\ task[t].pc = "writeData"
    /\ ~task[t].wasInit /\ coll[task[t].cid].initialized

\* C11: within one insert / insertMany the header row is on the sheet before
\* the data write is issued, and the row cache is as it was until the data
\* write has succeeded (it stays so when a remote call is rejected).
C11_InsertOrdering ==
  \A t \in Tasks :
    (IsInsert(task[t].op) /\ task[t].cid # 0)
    => /\ (task[t].pc = "writeData" /\ task[t].sync)
            => GridRow(cells[task[t].name], 1) = Trim(task[t].header)
       /\ task[t].pc \in {"syncHeader", "writeData"}
            => coll[task[t].cid].data = task[t].before
       /\ (Done(t) /\ task[t].status = "error")
            => coll[task[t].cid].data = task[t].before
       /\ (Returned(t) /\ task[t].recs # <<>>)
            => Len(coll[task[t].cid].data) = Len(task[t].before) + Len(task[t].recs)
C11_Witness ==
  \E t \in Tasks :
    /\ task[t].op = "insertMany" /\ task[t].pc = "writeData" /\ task[t].sync
    /\ Len(task[t].before) >= 1
    /\ GridRow(cells[task[t].name], 1) = Trim(task[t].header)
\* C12: when a remote call made by insert, insertMany or update is rejected,
\* the collection's Column Index and row cache are what they were when the
\* operation began its own work.
RemoteErrors == {RemoteError, GridError, RangeError, "addSheet: the sheet already exists"}
C12_FailureLeavesLocalState ==
  \A t \in Tasks :
    ( /\ Done(t) /\ task[t].status = "error" /\ task[t].error \in RemoteErrors
      /\ task[t].op \in {"insert", "insertMany", "update"}
      /\ task[t].cid \in Registered )
    => /\ coll[task[t].cid].columns = task[t].c0.columns
       /\ coll[task[t].cid].column_map = task[t].c0.column_map
       /\ coll[task[t].cid].data = task[t].c0.data
\* C13: insertMany of an empty list returns 0 in the step that starts it, with
\* no remote call issued and the sheets, the registry and every registered
\* collection as they were.
C13_EmptyInsertIsNoOp ==
  [][\A t \in Tasks :
       ( /\ nops' = nops + 1 /\ task'[t].pc # "idle" /\ task'[t] # task[t]
         /\ task'[t].op = "insertMany" /\ task'[t].recs = <<>> )
       => /\ task'[t].pc = "done" /\ task'[t].status = "ok" /\ task'[t].ret = 0
          /\ sheets' = sheets /\ cells' = cells
          /\ collections' = collections
          /\ \A c \in Registered : coll'[c] = coll[c]]_vars
C13_Witness ==
  \E t \in Tasks :
    /\ Returned(t) /\ task[t].op = "insertMany" /\ task[t].recs = <<>> /\ task[t].ret = 0
    /\ FindCollection(task[t].name) # 0
    /\ ~coll[FindCollection(task[t].name)].initialized
\* C14: update of a name the registry does not hold, of a null record or of
\* a record whose _index is not a number throws its usage error in the step
\* that starts it: no remote call, no change of the sheets, the registry or
\* any registered collection.
UsageError(name, record) ==
  IF FindCollection(name) = 0 THEN "Collection not exists"
  ELSE IF IsNull(record) THEN "Invalid record"
  ELSE IF record.idx = NoIndex THEN "Invalid index"
  ELSE ""
C14_UpdateUsageErrors ==
  [][\A t \in Tasks :
       ( /\ nops' = nops + 1 /\ task'[t].pc # "idle" /\ task'[t] # task[t]
         /\ task'[t].op = "update"
         /\ UsageError(task'[t].name, task'[t].recs[1]) # "" )
       => /\ task'[t].pc = "done" /\ task'[t].status = "error"
          /\ task'[t].error = UsageError(task'[t].name, task'[t].recs[1])
          /\ sheets' = sheets /\ cells' = cells
          /\ collections' = collections
          /\ \A c \in Registered : coll'[c] = coll[c]]_vars
C14_Witness ==
  \E t \in Tasks :
    /\ Done(t) /\ task[t].op = "update" /\ task[t].error = "Invalid index"
    /\ task[t].cid \in Registered /\ ~coll[task[t].cid].initialized
    /\ task[t].recs[1].kv # <<>>
\* C15: a successful update of the record with _index k makes slot k of the
\* row cache the given record, as given, and leaves every other slot and,
\* for k within the row cache, its length as they were.
C15_UpdateTouchesOneSlot ==
  \A t \in Tasks :
    (Returned(t) /\ task[t].op = "update")
    => LET k == task[t].recs[1].idx
           data == coll[task[t].cid].data
           old == task[t].before
       IN /\ Len(data) >= k + 1 /\ data[k + 1] = task[t].recs[1]
          /\ \A j \in 1..Len(old) : j # k + 1 => (j <= Len(data) /\ data[j] = old[j])
          /\ k < Len(old) => Len(data) = Len(old)
C15_Witness ==
  \E t \in Tasks :
    /\ Returned(t) /\ task[t].op = "update" /\ ~task[t].alias
    /\ Len(task[t].before) >= 2 /\ task[t].recs[1].idx = 1
    /\ HasKey(task[t].before[2].kv, "x") /\ ~HasKey(task[t].recs[1].kv, "x")
    /\ ~HasKey(coll[task[t].cid].data[2].kv, "x")
\* C16: a successful refreshRecord gives each field of the passed record the
\* value remote row _index + 2 holds in the field's column (undefined for a
\* field without a column), adds no field, keeps _index and _id, and leaves
\* the Column Index and the row cache length as they were.
C16_RefreshRecordFields ==
  \A t \in Tasks :
    (Returned(t) /\ task[t].op = "refreshRecord")
    => LET given == task[t].recs[1]
           got == task[t].out[1]
           c == coll[task[t].cid]
           row == GridRow(cells[task[t].name], given.idx + 2)
       IN /\ got.idx = given.idx /\ got.id = given.id
          /\ Len(got.kv) = Len(given.kv)
          /\ \A i \in 1..Len(given.kv) :
               /\ got.kv[i][1] = given.kv[i][1]
               /\ IF given.kv[i][1] \in DOMAIN c.column_map
                  THEN CellOf(got.kv[i][2]) = CellAt(row, c.column_map[given.kv[i][1]] + 1)
                  ELSE got.kv[i][2] = Undef
          /\ c.columns = task[t].c0.columns /\ c.column_map = task[t].c0.column_map
          /\ Len(c.data) = Len(task[t].c0.data)
C16_Witness ==
  \E t \in Tasks :
    /\ Returned(t) /\ task[t].op = "refreshRecord"
    /\ HasKey(task[t].recs[1].kv, "name")
    /\ Get(task[t].out[1].kv, "name") \notin {Undef, Get(task[t].recs[1].kv, "name")}
    /\ "x" \in DOMAIN coll[task[t].cid].column_map
    /\ ~HasKey(task[t].out[1].kv, "x")
\* C17: after a successful refreshAll the registry holds one initialized
\* collection object per remote sheet, in the sheets' order, each with the
\* Column Index of the sheet's header row and a row cache of the sheet's
\* data rows: nothing of what the registry held before is left.
FromHeader(c) ==
  LET header == GridRow(cells[c.name], 1)
  IN /\ Len(c.columns) = Len(header)
     /\ \A k \in 1..Len(header) :
          /\ c.columns[k] = IF header[k] = "" THEN SynthName[k] ELSE header[k]
          /\ c.column_map[c.columns[k]] = k - 1
     /\ DOMAIN c.column_map = Range(c.columns)
FromRows(c) ==
  /\ Len(c.data) = Max2(Len(cells[c.name]) - 1, 0)
  /\ \A j \in 1..Len(c.data) :
       /\ c.data[j].idx = j - 1 /\ c.data[j].id \in UUIDs
       /\ [i \in 1..Len(c.data[j].kv) |-> c.data[j].kv[i][1]] = c.columns
       /\ RowMatches(c, c.data[j], GridRow(cells[c.name], j + 1))
C17_RefreshAllRebuilds ==
  \A t \in Tasks :
    (Returned(t) /\ task[t].op = "refreshAll")
    => /\ Len(collections) = Len(sheets)
       /\ \A i, j \in 1..Len(collections) : collections[i] = collections[j] => i = j
       /\ \A i \in 1..Len(collections) :
            LET c == coll[collections[i]]
            IN /\ c.name = sheets[i].title /\ c.sheet = sheets[i] /\ c.initialized
               /\ FromHeader(c) /\ FromRows(c)
C17_Witness ==
  \E t \in Tasks :
    /\ Returned(t) /\ task[t].op = "refreshAll" /\ Len(collections) = 2
    /\ Len(task[t].regBefore) = 1
    /\ \E i \in 1..2 : Len(coll[collections[i]].columns) >= 1
    /\ \E i \in 1..2 : ~sheets[i].grid
\* C18: refreshCollection of a name the registry does not hold throws
\* 'Collection not exists' in the step that starts it; of a name whose sheet
\* the spreadsheet no longer holds it throws 'Sheet not found' after
\* getSheets; either way the registry and the collection stay as they were.
C18_RefreshCollectionErrors ==
  [][\A t \in Tasks :
       /\ ( /\ nops' = nops + 1 /\ task'[t].pc # "idle" /\ task'[t] # task[t]
            /\ task'[t].op = "refreshCollection" /\ FindCollection(task'[t].name) = 0 )
          => /\ task'[t].pc = "done" /\ task'[t].status = "error"
             /\ task'[t].error = "Collection not exists"
             /\ sheets' = sheets /\ cells' = cells /\ collections' = collections
             /\ \A c \in Registered : coll'[c] = coll[c]
       /\ ( /\ task[t].op = "refreshCollection" /\ task[t].pc = "gotSheets"
            /\ task'[t] # task[t] /\ ~SheetExists(task[t].name) )
          => /\ task'[t].pc = "done" /\ task'[t].status = "error"
             /\ task'[t].error = "Sheet not found"
             /\ sheets' = sheets /\ cells' = cells /\ collections' = collections
             /\ coll[task[t].cid] = task[t].c0
             /\ \A c \in Registered : coll'[c] = coll[c]]_vars
C18_Witness ==
  \E t \in Tasks :
    /\ Done(t) /\ task[t].op = "refreshCollection" /\ task[t].error = "Sheet not found"
    /\ task[t].cid \in Registered
    /\ coll[task[t].cid].initialized /\ Len(coll[task[t].cid].data) >= 1
    /\ coll[task[t].cid] = task[t].c0
\* The bijective base-26 numeral of n >= 1: digits A..Z stand for 1..26.
RECURSIVE Bijective26(_)
Bijective26(n) ==
  IF n <= 0 THEN ""
  ELSE Bijective26((n - 1) \div 26) \o AZ[((n - 1) % 26) + 1]
\* C19: getColumnByIndex(n) is the bijective base-26 numeral of n for every
\* n >= 1 (1 -> "A", 26 -> "Z", 27 -> "AA", 702 -> "ZZ", 703 -> "AAA", ...),
\* and the index-out-of-range error for every n <= 0.
C19_ColumnLetters ==
  column.letters # Pending =>
    IF column.index >= 1
    THEN column.letters = Bijective26(column.index)
    ELSE column.letters = ColumnError
\* The same up to two letters, where the code's table lookup is defined.
C19_TwoLetters ==
  (column.letters # Pending /\ column.index <= 702) =>
    IF column.index >= 1
    THEN column.letters = Bijective26(column.index)
    ELSE column.letters = ColumnError
\* The name materialization gives to a blank header cell at this offset.
IsSynthetic(columns, k) == k <= Len(SynthName) /\ columns[k] = SynthName[k]
\* C20: a header rewrite overwrites row 1 across the full column width
\* with, at each offset, the column's name if it is a user-visible field name
\* and "" if it is the synthetic name of a blank header cell: no synthetic
\* name reaches the remote header and no user field name is blanked.
C20_HeaderResync ==
  [][\A t \in Tasks :
       (task[t].pc = "syncHeader" /\ task'[t].pc = "writeData") =>
         LET columns == coll[task[t].cid].columns
             row == cells'[task[t].name][1]
         IN /\ Len(row) >= Len(columns)
            /\ \A k \in 1..Len(columns) :
                 row[k] = IF IsSynthetic(columns, k) THEN "" ELSE columns[k]]_vars
\* The same for the columns whose name does not start with the prefix of the
\* synthetic names, and for the synthetic ones.
C20_UnprefixedNames ==
  [][\A t \in Tasks :
       (task[t].pc = "syncHeader" /\ task'[t].pc = "writeData") =>
         LET columns == coll[task[t].cid].columns
             row == cells'[task[t].name][1]
         IN /\ Len(row) >= Len(columns)
            /\ \A k \in 1..Len(columns) :
                 (IsSynthetic(columns, k) \/ ~StartsWithColumn(columns[k])) =>
                   row[k] = IF IsSynthetic(columns, k) THEN "" ELSE columns[k]]_vars
\* C21: delete issues one removeRows per matched record, each of one row, in
\* strictly descending order of the matched positions, the one for position
\* p at zero-based grid row p + 1, and returns the number of matched records;
\* with no match it issues none and returns 0.
Matched(t) ==
  {p \in 0..(Len(task[t].before) - 1) : p \in task[t].pred /\ ~IsHole(task[t].before[p + 1])}
RemovalOrder ==
  \A t \in Tasks :
    (task[t].op = "delete" /\ task[t].pc \in {"removeRows", "done"})
    => LET removed == task[t].removed
       IN /\ \A k \in 1..Len(removed) :
               /\ removed[k][2] = 1
               /\ removed[k][1] - 1 \in Matched(t)
               /\ Cardinality({q \in Matched(t) : q > removed[k][1] - 1}) = k - 1
          /\ Returned(t) => /\ Len(removed) = Cardinality(Matched(t))
                            /\ task[t].ret = Cardinality(Matched(t))
C21_Witness ==
  \E t \in Tasks :
    /\ Returned(t) /\ task[t].op = "delete" /\ task[t].ret = 2
    /\ task[t].removed = << <<3, 1>>, <<1, 1>> >>
C21_WitnessNoMatch ==
  \E t \in Tasks :
    /\ Returned(t) /\ task[t].op = "delete" /\ task[t].ret = 0
    /\ Len(task[t].before) >= 2 /\ task[t].removed = <<>>
\* The row a removal takes out is the one that holds the record.
RemovesRowOfRecord ==
  \A t \in Tasks :
    (task[t].pc = "removeRows" /\ Len(task'[t].removed) > Len(task[t].removed))
    => LET c == coll[task[t].cid]
           index == task[t].deleteIndex[task[t].i]
       IN RowMatches(c, c.data[index + 1], GridRow(cells[c.name], index + 2))
C21_DeleteRemovals == [][RemovesRowOfRecord /\ RemovalOrder']_vars
\* The count, the order, the row numbers and the result alone.
C21_RemovalOrder == RemovalOrder
\* C22: a successful update issues one data-row write, for the one row
\* _index + 2 from column A through the letter of the column count after this
\* update's allocations, preceded by a header rewrite exactly when this update
\* allocated a column.
C22_UpdateWrite ==
  \A t \in Tasks :
    (Returned(t) /\ task[t].op = "update")
    => LET row == task[t].recs[1].idx + 2
           width == Len(coll[task[t].cid].columns)
           dataWrite == [kind |-> "data", from |-> Cell("A", row),
                         to |-> Cell(Bijective26(width), row)]
           writes == task[t].writes
       IN IF width > Len(task[t].c0.columns)
          THEN Len(writes) = 2 /\ writes[1].kind = "header" /\ writes[2] = dataWrite
          ELSE writes = <<dataWrite>>
C22_Witness ==
  \E t \in Tasks :
    /\ Returned(t) /\ task[t].op = "update" /\ task[t].recs[1].idx = 1
    /\ Len(task[t].writes) = 2
    /\ task[t].writes[2].to = Cell("B", 3)
C22_WitnessNoHeader ==
  \E t \in Tasks :
    /\ Returned(t) /\ task[t].op = "update"
    /\ Len(task[t].writes) = 1 /\ task[t].writes[1].to.col = "C"
\* C23: when the read of a lazy materialization is rejected, the operation
\* fails and the collection is as it was, not initialized; the next operation
\* on it that gets as far as initCollection reads again, and a read that
\* answers with rows leaves the collection initialized.
Lazy(tk) == tk.op \in BodyOps
C23_MaterializationRetry ==
  [][\A t \in Tasks :
       /\ (Lazy(task[t]) /\ task[t].pc = "readData" /\ task'[t].failedAt = "readData")
          => /\ task'[t].pc = "done" /\ task'[t].status = "error"
             /\ coll'[task[t].cid] = coll[task[t].cid]
             /\ ~coll'[task[t].cid].initialized
             /\ collections' = collections
       /\ (task'[t] # task[t] /\ task'[t].retry /\ Lazy(task'[t]) /\ nops' = nops + 1)
          => \/ task'[t].pc = "readData" /\ ~coll'[task'[t].cid].initialized
             \/ /\ task'[t].pc = "done"
                /\ \/ task'[t].error \in {"Invalid record", "Invalid index"}
                   \/ IsInsert(task'[t].op) /\ task'[t].recs = <<>>
       /\ (Lazy(task[t]) /\ task[t].pc = "gotData" /\ task[t].rows # <<>>
             /\ task'[t] # task[t])
          => coll'[task[t].cid].initialized]_vars
C23_Witness ==
  \E t \in Tasks :
    /\ task[t].retry /\ Returned(t) /\ task[t].op \in {"find", "insert"}
    /\ ~task[t].wasInit
    /\ coll[task[t].cid].initialized /\ Len(coll[task[t].cid].data) >= 1
\* C24: at every suspension point of refreshAll, and after a refreshAll that
\* fails on a remote call, the registry holds either the complete set of
\* collections it held before the call or one collection per remote sheet,
\* never an empty or partly rebuilt set.
Suspended(t) ==
  /\ task[t].op = "refreshAll"
  /\ \/ task[t].pc \in {"getSheets", "readData"}
     \/ Done(t) /\ task[t].status = "error"
C24_RefreshAllAtomic ==
  \A t \in Tasks :
    Suspended(t)
    => \/ RegistryNames(collections, coll) = task[t].regBefore
       \/ RegistryNames(collections, coll) = [i \in 1..Len(sheets) |-> sheets[i].title]
\* C24 as amended: until getSheets has answered the registry holds what it
\* held before; from then on, while refreshAll waits for a read and after one
\* that failed, it holds the rebuilt collections of the sheets before the
\* one being read, in the sheets' order.
Rebuilt(n) ==
  /\ Len(collections) = n
  /\ \A k \in 1..n :
       LET c == coll[collections[k]]
       IN /\ c.name = sheets[k].title /\ c.sheet = sheets[k] /\ c.initialized
          /\ FromHeader(c) /\ FromRows(c)
C24_RefreshAllPrefix ==
  \A t \in Tasks :
    Suspended(t)
    => IF task[t].pc = "getSheets" \/ task[t].failedAt = "getSheets"
       THEN RegistryNames(collections, coll) = task[t].regBefore
       ELSE IF task[t].pc = "readData"
       THEN Rebuilt(task[t].i - 1)
       ELSE Len(collections) < Len(sheets) /\ Rebuilt(Len(collections))
C24_Witness ==
  \E t \in Tasks :
    /\ task[t].op = "refreshAll" /\ task[t].pc = "readData" /\ task[t].i = 2
    /\ Len(task[t].regBefore) = 2 /\ Len(collections) = 1
C24_WitnessFailed ==
  \E t \in Tasks :
    /\ task[t].op = "refreshAll" /\ Done(t) /\ task[t].failedAt = "readData"
    /\ Len(task[t].regBefore) = 2 /\ Len(collections) = 0
\* C25: when two operations on the same uninitialized collection were in
\* flight at once and both have returned, the collection is initialized and
\* its row cache holds every remote data row exactly once.
BothReturned(t, u) ==
  /\ t # u /\ Returned(t) /\ Returned(u)
  /\ task[t].overlapped /\ ~task[t].wasInit /\ ~task[u].wasInit
  /\ Lazy(task[t]) /\ Lazy(task[u])
  /\ task[u].name = task[t].name /\ task[u].cid = task[t].cid
  /\ task[t].cid \in Registered
C25_ConcurrentMaterialization ==
  \A t, u \in Tasks :
    BothReturned(t, u)
    => LET c == coll[task[t].cid]
       IN /\ c.initialized
          \* a record for every data row, and every record in its row
          /\ Len(cells[c.name]) <= Len(c.data) + 1
          /\ \A j \in 1..Len(c.data) :
               ~IsHole(c.data[j]) => RowMatches(c, c.data[j], GridRow(cells[c.name], j + 1))
\* C25 as amended: a materialization that completes sets the flag and
\* replaces the Column Index and the row cache by those of the rows its own
\* read returned, whatever another operation has put there since that read.
ReadBack(c, rows) ==
  LET header == rows[1]
  IN /\ c.initialized
     /\ Len(c.data) = Len(rows) - 1
     /\ \A k \in 1..Len(header) :
          c.columns[k] = IF header[k] = "" THEN SynthName[k] ELSE header[k]
     /\ \A j \in 1..Len(c.data) :
          /\ c.data[j].idx = j - 1
          /\ \A k \in 1..Len(header) :
               CellOf(Get(c.data[j].kv, c.columns[c.column_map[c.columns[k]] + 1]))
                 = CellAt(rows[j + 1], c.column_map[c.columns[k]] + 1)
C25_MaterializationReplaces ==
  [][\A t \in Tasks :
       (Lazy(task[t]) /\ task[t].pc = "gotData" /\ task[t].rows # <<>>
          /\ task'[t] # task[t])
       => ReadBack(coll'[task[t].cid], task[t].rows)]_vars
C25_Witness ==
  \E t, u \in Tasks :
    /\ BothReturned(t, u)
    /\ IsInsert(task[u].op) /\ Len(task[u].out) >= 1
    /\ coll[task[t].cid].initialized
    /\ Len(coll[task[t].cid].data) < Len(cells[task[t].name]) - 1
====
